---- MODULE Spec2Model ----
(***************************************************************************)
(* Data Warehouse Go client: the shared transport primitives (New, get,    *)
(* post), the typed JSON models and the resource operations built on them. *)
(*                                                                         *)
(* A caller invokes one public operation at a time.  The operation builds  *)
(* its request and hands it to the HTTP transport (client.Do), where the   *)
(* caller blocks; the transport answers with a failure or with a response  *)
(* (status, body); the operation then reads the body, checks the status,   *)
(* decodes the JSON and returns (value, error) to the caller.              *)
(*                                                                         *)
(* Go values that may be nil (pointers, slices, errors) are either Nil or  *)
(* a record.  JSON documents are texts; json.Unmarshal is modelled on the  *)
(* parsed value of a text, following encoding/json's decoding rules.       *)
(***************************************************************************)
EXTENDS Integers, Sequences, FiniteSets, TLC

(***************************************************************************)
(* Bounds and program constants                                            *)
(***************************************************************************)

\* Number of callers that use the one shared client.
NumCallers == 1

\* http.StatusOK, the only status get and post accept.
StatusOK == 200

Callers == 1 .. NumCallers

\* Go's nil: the nil pointer, the nil slice, the nil error.
Nil == [nil |-> TRUE]

(***************************************************************************)
(* Errors.  A Go error here is its origin (kind), the message of the       *)
(* innermost error and the context prefixes added by fmt.Errorf("..: %w"). *)
(***************************************************************************)

Err(kind, msg) == [kind |-> kind, ctx |-> << >>, msg |-> msg]

\* fmt.Errorf("unexpected status code: %d, body: %s", res.StatusCode, string(body))
StatusError(code, body) ==
    [kind |-> "UnexpectedStatus", ctx |-> << >>,
     msg  |-> "unexpected status code: " \o ToString(code) \o ", body: " \o body,
     code |-> code, body |-> body]

\* fmt.Errorf(prefix + ": %w", e)
Wrap(prefix, e) == [e EXCEPT !.ctx = <<prefix>> \o @]

RECURSIVE JoinCtx(_)
JoinCtx(ctx) == IF ctx = << >> THEN "" ELSE Head(ctx) \o ": " \o JoinCtx(Tail(ctx))

\* error.Error()
ErrorString(e) == JoinCtx(e.ctx) \o e.msg

(***************************************************************************)
(* JSON documents.  A parsed JSON value is a record tagged by its type;    *)
(* JInvalid stands for a text that is not JSON (json.Unmarshal's syntax    *)
(* check fails before anything is stored).                                 *)
(***************************************************************************)

JInvalid == [t |-> "invalid"]
JAbsent == [t |-> "absent"]
JNull == [t |-> "null"]
JStr(s) == [t |-> "string", s |-> s]
JNum(n) == [t |-> "number", n |-> n]
JArr(a) == [t |-> "array", a |-> a]
JObj(o) == [t |-> "object", o |-> o]

\* The value of key k in a JSON object, JAbsent if the object has no such key.
Member(j, k) == IF k \in DOMAIN j.o THEN j.o[k] ELSE JAbsent

\* The zero time.Time, and the RFC 3339 texts time.Time.UnmarshalJSON accepts.
ZeroTime == "0001-01-01T00:00:00Z"
ValidTimes == {"2024-01-01T00:00:00Z"}

\* Response body texts the server may send.
T_notjson == "<html>Bad Gateway</html>"
T_empty == ""
T_null == "null"
T_emptyobj == "{}"
T_array == "[]"
T_error == "{\"error\":{\"message\":\"not found\",\"code\":\"NOT_FOUND\"}}"
T_article == "{\"article\":{\"id\":\"1\",\"title\":\"T\",\"url\":\"https://x\",\"tags\":[\"a\",\"b\"]}}"
T_article_null == "{\"article\":null}"
T_article_badid == "{\"article\":{\"id\":7}}"
T_articles_empty == "{\"articles\":[]}"
T_articles_null == "{\"articles\":null}"
T_articles_page == "{\"articles\":[{\"id\":\"1\",\"title\":\"T\",\"url\":\"https://x\",\"tags\":[\"a\",\"b\"]},{\"id\":\"2\",\"title\":\"U\",\"url\":\"https://y\"}],\"total\":37,\"page\":1,\"limit\":20}"
T_articles_short == "{\"articles\":[{\"id\":\"1\",\"title\":\"T\",\"url\":\"https://x\",\"tags\":[\"a\",\"b\"]},{\"id\":\"2\",\"title\":\"U\",\"url\":\"https://y\"}],\"total\":1,\"page\":1,\"limit\":20}"
T_podcast == "{\"podcast\":{\"id\":\"1\",\"title\":\"T\",\"url\":\"https://x\",\"tags\":[\"a\",\"b\"]}}"
T_podcast_null == "{\"podcast\":null}"
T_podcast_badid == "{\"podcast\":{\"id\":7}}"
T_podcasts_empty == "{\"podcasts\":[]}"
T_podcasts_null == "{\"podcasts\":null}"
T_podcasts_page == "{\"podcasts\":[{\"id\":\"1\",\"title\":\"T\",\"url\":\"https://x\",\"tags\":[\"a\",\"b\"]},{\"id\":\"2\",\"title\":\"U\",\"url\":\"https://y\"}],\"total\":37,\"page\":1,\"limit\":20}"
T_podcasts_short == "{\"podcasts\":[{\"id\":\"1\",\"title\":\"T\",\"url\":\"https://x\",\"tags\":[\"a\",\"b\"]},{\"id\":\"2\",\"title\":\"U\",\"url\":\"https://y\"}],\"total\":1,\"page\":1,\"limit\":20}"
T_health == "{\"status\":\"ok\",\"database\":\"connected\",\"timestamp\":\"2024-01-01T00:00:00Z\"}"
T_health_badtime == "{\"status\":\"ok\",\"database\":\"connected\",\"timestamp\":\"yesterday\"}"

J_item1 == JObj([id |-> JStr("1"), title |-> JStr("T"), url |-> JStr("https://x"),
                 tags |-> JArr(<<JStr("a"), JStr("b")>>)])
J_item2 == JObj([id |-> JStr("2"), title |-> JStr("U"), url |-> JStr("https://y")])
J_badid == JObj([id |-> JNum(7)])

\* The JSON value each body text denotes (encoding/json's scanner on that text).
ParseJSON(text) ==
    CASE text = T_notjson -> JInvalid
      [] text = T_empty -> JInvalid
      [] text = T_null -> JNull
      [] text = T_emptyobj -> JObj(<< >>)
      [] text = T_array -> JArr(<< >>)
      [] text = T_error ->
            JObj([error |-> JObj([message |-> JStr("not found"), code |-> JStr("NOT_FOUND")])])
      [] text = T_article -> JObj([article |-> J_item1])
      [] text = T_article_null -> JObj([article |-> JNull])
      [] text = T_article_badid -> JObj([article |-> J_badid])
      [] text = T_articles_empty -> JObj([articles |-> JArr(<< >>)])
      [] text = T_articles_null -> JObj([articles |-> JNull])
      [] text = T_articles_page ->
            JObj([articles |-> JArr(<<J_item1, J_item2>>),
                  total |-> JNum(37), page |-> JNum(1), limit |-> JNum(20)])
      [] text = T_articles_short ->
            JObj([articles |-> JArr(<<J_item1, J_item2>>),
                  total |-> JNum(1), page |-> JNum(1), limit |-> JNum(20)])
      [] text = T_podcast -> JObj([podcast |-> J_item1])
      [] text = T_podcast_null -> JObj([podcast |-> JNull])
      [] text = T_podcast_badid -> JObj([podcast |-> J_badid])
      [] text = T_podcasts_empty -> JObj([podcasts |-> JArr(<< >>)])
      [] text = T_podcasts_null -> JObj([podcasts |-> JNull])
      [] text = T_podcasts_page ->
            JObj([podcasts |-> JArr(<<J_item1, J_item2>>),
                  total |-> JNum(37), page |-> JNum(1), limit |-> JNum(20)])
      [] text = T_podcasts_short ->
            JObj([podcasts |-> JArr(<<J_item1, J_item2>>),
                  total |-> JNum(1), page |-> JNum(1), limit |-> JNum(20)])
      [] text = T_health ->
            JObj([status |-> JStr("ok"), database |-> JStr("connected"),
                  timestamp |-> JStr("2024-01-01T00:00:00Z")])
      [] text = T_health_badtime ->
            JObj([status |-> JStr("ok"), database |-> JStr("connected"),
                  timestamp |-> JStr("yesterday")])
      [] OTHER -> JInvalid

(***************************************************************************)
(* json.Unmarshal into the typed models.  Every decoder yields             *)
(* [err, val]: err tells whether encoding/json reports an error for the    *)
(* value, val is what the destination holds afterwards.  A JSON null and a *)
(* missing key leave the destination as it was (its zero value); a value   *)
(* of the wrong JSON type is an UnmarshalTypeError.                        *)
(***************************************************************************)

\* F applied to x: names a value once instead of repeating its expression.
With(x, F(_)) == F(x)

Untouched(j) == j.t \in {"null", "absent"}

\* A Go string field.
decodeString(j) ==
    IF j.t = "string" THEN [err |-> FALSE, val |-> j.s]
    ELSE [err |-> ~Untouched(j), val |-> ""]

\* A Go int field.
decodeInt(j) ==
    IF j.t = "number" THEN [err |-> FALSE, val |-> j.n]
    ELSE [err |-> ~Untouched(j), val |-> 0]

\* A time.Time field (Time.UnmarshalJSON).
decodeTime(j) ==
    IF j.t = "string" /\ j.s \in ValidTimes THEN [err |-> FALSE, val |-> j.s]
    ELSE [err |-> ~Untouched(j), val |-> ZeroTime]

\* A []string field: an array gives a non-nil slice, also when it is empty.
\* The elements decoded one by one: r[i] is [err, val] of element i.
Collect(r) ==
    [err |-> \E i \in DOMAIN r : r[i].err,
     val |-> [elems |-> [i \in DOMAIN r |-> r[i].val]]]

decodeStrings(j) ==
    IF j.t = "array" THEN Collect([i \in 1 .. Len(j.a) |-> decodeString(j.a[i])])
    ELSE [err |-> ~Untouched(j), val |-> Nil]

\* The members a struct decoder sees: those of a JSON object, none otherwise.
structFields(j) == IF j.t = "object" THEN j ELSE JObj(<< >>)

\* An Article or a Podcast struct (the two have the same fields and tags).
entityOf(wrongType, id, title, description, url, tags, created, updated) ==
    [err |-> \/ wrongType
             \/ id.err \/ title.err \/ description.err \/ url.err
             \/ tags.err \/ created.err \/ updated.err,
     val |-> [ID |-> id.val, Title |-> title.val, Description |-> description.val,
              URL |-> url.val, Tags |-> tags.val,
              CreatedAt |-> created.val, UpdatedAt |-> updated.val]]

decodeEntityFields(o, wrongType) ==
    entityOf(wrongType,
             decodeString(Member(o, "id")), decodeString(Member(o, "title")),
             decodeString(Member(o, "description")), decodeString(Member(o, "url")),
             decodeStrings(Member(o, "tags")),
             decodeTime(Member(o, "created_at")), decodeTime(Member(o, "updated_at")))

decodeEntity(j) == decodeEntityFields(structFields(j), ~(j.t = "object" \/ Untouched(j)))

\* A *Article or *Podcast field: null and a missing key leave the pointer nil.
decodeEntityPtr(j) ==
    IF Untouched(j) THEN [err |-> FALSE, val |-> Nil] ELSE decodeEntity(j)

\* A []Article or []Podcast field.
decodeEntities(j) ==
    IF j.t = "array" THEN Collect([i \in 1 .. Len(j.a) |-> decodeEntity(j.a[i])])
    ELSE [err |-> ~Untouched(j), val |-> Nil]

\* The error json.Unmarshal returns, if any.
UnmarshalError(j, fieldErr) ==
    IF j.t = "invalid" THEN Err("DeserializationError", "json: syntax error")
    ELSE IF j.t # "object" /\ j.t # "null"
         THEN Err("DeserializationError", "json: cannot unmarshal into struct")
    ELSE IF fieldErr THEN Err("DeserializationError", "json: cannot unmarshal into field")
    ELSE Nil

\* json.Unmarshal's verdict and the decoded value together.
Unmarshalled(j, d) == [err |-> UnmarshalError(j, d.err), val |-> d.val]

\* json.Unmarshal(data, &response) for ArticleResponse and PodcastResponse.
singleOf(j, key) == Unmarshalled(j, decodeEntityPtr(Member(structFields(j), key)))

UnmarshalArticleResponse(data) ==
    With(singleOf(ParseJSON(data), "article"),
         LAMBDA u : [err |-> u.err, val |-> [Article |-> u.val]])

UnmarshalPodcastResponse(data) ==
    With(singleOf(ParseJSON(data), "podcast"),
         LAMBDA u : [err |-> u.err, val |-> [Podcast |-> u.val]])

\* json.Unmarshal(data, &response) for ArticlesResponse and PodcastsResponse.
multiOf(j, key) == Unmarshalled(j, decodeEntities(Member(structFields(j), key)))

UnmarshalArticlesResponse(data) ==
    With(multiOf(ParseJSON(data), "articles"),
         LAMBDA u : [err |-> u.err, val |-> [Articles |-> u.val]])

UnmarshalPodcastsResponse(data) ==
    With(multiOf(ParseJSON(data), "podcasts"),
         LAMBDA u : [err |-> u.err, val |-> [Podcasts |-> u.val]])

\* json.Unmarshal(data, &response) for the two paginated responses.
\* The page and limit fields bound to each other's JSON key.
pageOf_PageLimitSwapped(items, total, page, limit) ==
    [err |-> items.err \/ total.err \/ page.err \/ limit.err,
     val |-> [items |-> items.val, Total |-> total.val, Page |-> limit.val,
              Limit |-> page.val]]

pageOf(items, total, page, limit) ==
    [err |-> items.err \/ total.err \/ page.err \/ limit.err,
     val |-> [items |-> items.val, Total |-> total.val, Page |-> page.val,
              Limit |-> limit.val]]

paginatedFields(j, o, key) ==
    Unmarshalled(j, pageOf(decodeEntities(Member(o, key)), decodeInt(Member(o, "total")),
                           decodeInt(Member(o, "page")), decodeInt(Member(o, "limit"))))

paginatedOf(j, key) == paginatedFields(j, structFields(j), key)

UnmarshalPaginatedArticlesResponse(data) ==
    With(paginatedOf(ParseJSON(data), "articles"),
         LAMBDA u : [err |-> u.err,
                     val |-> [Articles |-> u.val.items, Total |-> u.val.Total,
                              Page |-> u.val.Page, Limit |-> u.val.Limit]])

UnmarshalPaginatedPodcastsResponse(data) ==
    With(paginatedOf(ParseJSON(data), "podcasts"),
         LAMBDA u : [err |-> u.err,
                     val |-> [Podcasts |-> u.val.items, Total |-> u.val.Total,
                              Page |-> u.val.Page, Limit |-> u.val.Limit]])

\* json.Unmarshal(data, &response) for HealthResponse.
healthOf(status, database, timestamp) ==
    [err |-> status.err \/ database.err \/ timestamp.err,
     val |-> [Status |-> status.val, Database |-> database.val,
              Timestamp |-> timestamp.val]]

healthFields(j, o) ==
    Unmarshalled(j, healthOf(decodeString(Member(o, "status")),
                             decodeString(Member(o, "database")),
                             decodeTime(Member(o, "timestamp"))))

UnmarshalHealthResponse(data) == With(ParseJSON(data), LAMBDA j : healthFields(j, structFields(j)))

(***************************************************************************)
(* json.Marshal of the request payloads (CreateArticleRequest and          *)
(* CreatePodcastRequest have the same fields and tags).                    *)
(***************************************************************************)

\* The body of a JSON string literal: json.Marshal writes &, < and > as \u00XX.
EscapeJSON(s) == IF s = "Q&A" THEN "Q\\u0026A" ELSE s

Quote(s) == "\"" \o EscapeJSON(s) \o "\""

RECURSIVE JoinQuoted(_)
JoinQuoted(ss) ==
    IF ss = << >> THEN ""
    ELSE IF Len(ss) = 1 THEN Quote(ss[1])
    ELSE Quote(ss[1]) \o "," \o JoinQuoted(Tail(ss))

\* omitempty drops an empty description and a nil or empty tag list.
Marshal(request) ==
    [err  |-> Nil,
     data |-> "{\"title\":" \o Quote(request.Title)
              \o (IF request.Description = "" THEN ""
                  ELSE ",\"description\":" \o Quote(request.Description))
              \o ",\"url\":" \o Quote(request.URL)
              \o (IF request.Tags = Nil \/ request.Tags.elems = << >> THEN ""
                  ELSE ",\"tags\":[" \o JoinQuoted(request.Tags.elems) \o "]")
              \o "}"]

(***************************************************************************)
(* Endpoints                                                               *)
(***************************************************************************)

healthEndpoint == "/health"
createArticleEndpoint == "/api/v1/articles"
createPodcastEndpoint == "/api/v1/podcasts"
\* fmt.Sprintf(getArticleEndpoint, id) and the like: %s inserts the text as it is.
getArticleEndpoint(id) == "/api/v1/articles/" \o id
getPodcastEndpoint(id) == "/api/v1/podcasts/" \o id
searchArticlesEndpoint(tag) == "/api/v1/articles/search/" \o tag
searchPodcastsEndpoint(tag) == "/api/v1/podcasts/search/" \o tag
searchArticlesPaginatedEndpoint(tag) == "/api/v1/articles/search/" \o tag \o "/paginated"
searchPodcastsPaginatedEndpoint(tag) == "/api/v1/podcasts/search/" \o tag \o "/paginated"
\* page and limit brought into the ranges the service documents before they are sent.
withPaging_Clamped(endpoint, page, limit) ==
    endpoint \o "?page=" \o ToString(IF page < 1 THEN 1 ELSE page)
             \o "&limit=" \o ToString(IF limit > 100 THEN 100 ELSE limit)

\* fmt.Sprintf("%s?page=%d&limit=%d", endpoint, page, limit)
withPaging(endpoint, page, limit) ==
    endpoint \o "?page=" \o ToString(page) \o "&limit=" \o ToString(limit)

(***************************************************************************)
(* Inputs                                                                  *)
(***************************************************************************)

URLs == {"", "http://dw"}
APIKeys == {"", "k1", "k2"}
IDs == {"1", "%zz"}
Tags == {"tech", "a/b?c#d"}
Pagings == {<<1, 20>>, <<0, 101>>}
Requests ==
    {[Title |-> "T", Description |-> "", URL |-> "https://x",
      Tags |-> [elems |-> <<"a", "b">>]],
     [Title |-> "Q&A", Description |-> "D", URL |-> "https://y", Tags |-> Nil]}

\* Path segments with a malformed percent-escape: url.Parse rejects a URL holding one.
BadEscapes == {"%zz"}

(***************************************************************************)
(* HTTP requests                                                           *)
(***************************************************************************)

\* http.Header.Set
HeaderSet(h, k, v) == [x \in DOMAIN h \cup {k} |-> IF x = k THEN v ELSE h[x]]

\* http.NewRequest: fails when the URL does not parse.
NewRequest(method, url, body) ==
    IF \E b \in URLs, s \in BadEscapes :
          url \in {b \o getArticleEndpoint(s), b \o getPodcastEndpoint(s)}
    THEN [err |-> Err("InvalidRequest", "parse: invalid URL escape"), req |-> Nil]
    ELSE [err |-> Nil,
          req |-> [method |-> method, url |-> url, header |-> << >>, body |-> body]]

\* The Authorization header left out.
SetHeaders_NoAuthorization(c, r) ==
    [r EXCEPT !.header = HeaderSet(@, "Content-Type", "application/json")]

\* req.Header.Set("Content-Type", ...); req.Header.Set("Authorization", ...)
SetHeaders(c, r) ==
    [r EXCEPT !.header = HeaderSet(HeaderSet(@, "Content-Type", "application/json"),
                                   "Authorization", "Bearer " \o c.apiKey)]

\* get, up to and including the call of c.client.Do(req): the request handed to
\* the transport, or the error get returns without sending anything.
getSend(c, endpoint) ==
    With(NewRequest("GET", c.url \o endpoint, Nil),
         LAMBDA n : IF n.err # Nil THEN [err |-> n.err, req |-> Nil]
                    ELSE [err |-> Nil, req |-> SetHeaders(c, n.req)])

\* post building its request without the marshalled payload.
postSend_NoBody(c, endpoint, data) ==
    With(Marshal(data),
         LAMBDA m :
            IF m.err # Nil
            THEN [err |-> Wrap("error marshalling data to JSON", m.err), req |-> Nil]
            ELSE With(NewRequest("POST", c.url \o endpoint, Nil),
                      LAMBDA n : IF n.err # Nil
                                 THEN [err |-> Wrap("error creating request", n.err),
                                       req |-> Nil]
                                 ELSE [err |-> Nil, req |-> SetHeaders(c, n.req)]))

\* post, up to and including the call of c.client.Do(req).
postSend(c, endpoint, data) ==
    With(Marshal(data),
         LAMBDA m :
            IF m.err # Nil
            THEN [err |-> Wrap("error marshalling data to JSON", m.err), req |-> Nil]
            ELSE With(NewRequest("POST", c.url \o endpoint, [text |-> m.data]),
                      LAMBDA n : IF n.err # Nil
                                 THEN [err |-> Wrap("error creating request", n.err),
                                       req |-> Nil]
                                 ELSE [err |-> Nil, req |-> SetHeaders(c, n.req)]))

(***************************************************************************)
(* What the transport answers: client.Do fails, or it returns a response   *)
(* whose body io.ReadAll then reads in full or fails to read.              *)
(***************************************************************************)

\* No request was handed to the transport: get or post returned e before that.
Unsent(e) == [kind |-> "unsent", err |-> e]
DoFailure == [kind |-> "error", msg |-> "dial tcp: connection refused"]
Response(status, body, readErr) ==
    [kind |-> "response", status |-> status, body |-> body, readErr |-> readErr]

\* get taking every 2xx status for a success.
getReceive_Any2xx(out) ==
    IF out.kind = "unsent" THEN [data |-> Nil, err |-> out.err]
    ELSE IF out.kind = "error" THEN [data |-> Nil, err |-> Err("TransportError", out.msg)]
    ELSE IF out.readErr THEN [data |-> Nil, err |-> Err("TransportError", "unexpected EOF")]
    ELSE IF out.status < 200 \/ out.status > 299
    THEN [data |-> Nil, err |-> StatusError(out.status, out.body)]
    ELSE [data |-> [text |-> out.body], err |-> Nil]

\* get, from the return of c.client.Do(req) on.
getReceive(out) ==
    IF out.kind = "unsent" THEN [data |-> Nil, err |-> out.err]
    ELSE IF out.kind = "error" THEN [data |-> Nil, err |-> Err("TransportError", out.msg)]
    ELSE IF out.readErr THEN [data |-> Nil, err |-> Err("TransportError", "unexpected EOF")]
    ELSE IF out.status # StatusOK
    THEN [data |-> Nil, err |-> StatusError(out.status, out.body)]
    ELSE [data |-> [text |-> out.body], err |-> Nil]

\* post, from the return of c.client.Do(req) on.
postReceive(out) ==
    IF out.kind = "unsent" THEN [data |-> Nil, err |-> out.err]
    ELSE IF out.kind = "error"
    THEN [data |-> Nil, err |-> Wrap("error sending request", Err("TransportError", out.msg))]
    ELSE IF out.readErr
    THEN [data |-> Nil,
          err |-> Wrap("error reading response body", Err("TransportError", "unexpected EOF"))]
    ELSE IF out.status # StatusOK
    THEN [data |-> Nil, err |-> StatusError(out.status, out.body)]
    ELSE [data |-> [text |-> out.body], err |-> Nil]

(***************************************************************************)
(* The public operations, from the return of get or post on: r is what get *)
(* or post returned, [data, err]; the result is the operation's            *)
(* (value, error) pair.                                                    *)
(***************************************************************************)

\* The value slot of an operation whose signature returns an error only.
NoValue == [novalue |-> TRUE]

\* An operation formatting the failure into a new error (%v) instead of wrapping it.
Failed_Flattened(prefix, e) ==
    [val |-> Nil, err |-> Err("Error", prefix \o ": " \o ErrorString(e))]

Failed(prefix, e) == [val |-> Nil, err |-> Wrap(prefix, e)]

GetHealthResult(r) ==
    IF r.err # Nil THEN Failed("error retrieving health status", r.err)
    ELSE With(UnmarshalHealthResponse(r.data.text),
              LAMBDA u : IF u.err # Nil
                         THEN Failed("error unmarshalling response data", u.err)
                         ELSE [val |-> u.val, err |-> Nil])

CreateArticleResult(r) ==
    IF r.err # Nil THEN Failed("error creating article", r.err)
    ELSE With(UnmarshalArticleResponse(r.data.text),
              LAMBDA u : IF u.err # Nil
                         THEN Failed("error unmarshalling response data", u.err)
                         ELSE [val |-> u.val.Article, err |-> Nil])

GetArticleResult(r) ==
    IF r.err # Nil THEN Failed("error retrieving article", r.err)
    ELSE With(UnmarshalArticleResponse(r.data.text),
              LAMBDA u : IF u.err # Nil
                         THEN Failed("error unmarshalling response data", u.err)
                         ELSE [val |-> u.val.Article, err |-> Nil])

\* SearchArticles reporting an empty list as an error.
SearchArticlesResult_EmptyIsError(r) ==
    IF r.err # Nil THEN Failed("error searching articles", r.err)
    ELSE With(UnmarshalArticlesResponse(r.data.text),
              LAMBDA u : IF u.err # Nil
                         THEN Failed("error unmarshalling response data", u.err)
                         ELSE IF u.val.Articles = Nil \/ u.val.Articles.elems = << >>
                         THEN [val |-> Nil, err |-> Err("NotFound", "no articles found")]
                         ELSE [val |-> u.val.Articles, err |-> Nil])

SearchArticlesResult(r) ==
    IF r.err # Nil THEN Failed("error searching articles", r.err)
    ELSE With(UnmarshalArticlesResponse(r.data.text),
              LAMBDA u : IF u.err # Nil
                         THEN Failed("error unmarshalling response data", u.err)
                         ELSE [val |-> u.val.Articles, err |-> Nil])

\* SearchArticlesPaginated raising a total that is below the number of items.
SearchArticlesPaginatedResult_TotalRaised(r) ==
    IF r.err # Nil THEN Failed("error searching articles with pagination", r.err)
    ELSE With(UnmarshalPaginatedArticlesResponse(r.data.text),
              LAMBDA u : IF u.err # Nil
                         THEN Failed("error unmarshalling response data", u.err)
                         ELSE [val |-> [u.val EXCEPT !.Total =
                                          IF u.val.Articles # Nil
                                             /\ Len(u.val.Articles.elems) > @
                                          THEN Len(u.val.Articles.elems) ELSE @],
                               err |-> Nil])

SearchArticlesPaginatedResult(r) ==
    IF r.err # Nil THEN Failed("error searching articles with pagination", r.err)
    ELSE With(UnmarshalPaginatedArticlesResponse(r.data.text),
              LAMBDA u : IF u.err # Nil
                         THEN Failed("error unmarshalling response data", u.err)
                         ELSE [val |-> u.val, err |-> Nil])

CreatePodcastResult(r) ==
    IF r.err # Nil THEN Failed("error creating podcast", r.err)
    ELSE With(UnmarshalPodcastResponse(r.data.text),
              LAMBDA u : IF u.err # Nil
                         THEN Failed("error unmarshalling response data", u.err)
                         ELSE [val |-> u.val.Podcast, err |-> Nil])

GetPodcastResult(r) ==
    IF r.err # Nil THEN Failed("error retrieving podcast", r.err)
    ELSE With(UnmarshalPodcastResponse(r.data.text),
              LAMBDA u : IF u.err # Nil
                         THEN Failed("error unmarshalling response data", u.err)
                         ELSE [val |-> u.val.Podcast, err |-> Nil])

SearchPodcastsResult(r) ==
    IF r.err # Nil THEN Failed("error searching podcasts", r.err)
    ELSE With(UnmarshalPodcastsResponse(r.data.text),
              LAMBDA u : IF u.err # Nil
                         THEN Failed("error unmarshalling response data", u.err)
                         ELSE [val |-> u.val.Podcasts, err |-> Nil])

SearchPodcastsPaginatedResult(r) ==
    IF r.err # Nil THEN Failed("error searching podcasts with pagination", r.err)
    ELSE With(UnmarshalPaginatedPodcastsResponse(r.data.text),
              LAMBDA u : IF u.err # Nil
                         THEN Failed("error unmarshalling response data", u.err)
                         ELSE [val |-> u.val, err |-> Nil])

\* The CreateArticle and CreatePodcast that return an error only: the response
\* data is dropped (_, err := c.post(...)).  Their payload types come from the
\* models package, outside this repository; the payloads used here are those of
\* CreateArticleRequest and CreatePodcastRequest.
CreateArticle_errOnlyResult(r) ==
    IF r.err # Nil THEN [val |-> NoValue, err |-> Wrap("error creating article", r.err)]
    ELSE [val |-> NoValue, err |-> Nil]

\* The path of a function on which the source has no return statement.
NoReturn == [noreturn |-> TRUE]

\* CreatePodcast of podcast.go returns the wrapped error of post; where post
\* succeeded its text is the one identifier "returnnil", which returns nothing.
CreatePodcast_errOnlyResult(r) ==
    IF r.err # Nil THEN [val |-> NoValue, err |-> Wrap("error creating podcast", r.err)]
    ELSE NoReturn

PostOps == {"CreateArticle", "CreatePodcast", "CreateArticle_errOnly", "CreatePodcast_errOnly"}
GetOps == {"GetHealth", "GetArticle", "GetPodcast", "SearchArticles", "SearchPodcasts",
           "SearchArticlesPaginated", "SearchPodcastsPaginated"}

\* The result of operation op once get or post has returned r.
OpResult(op, r) ==
    CASE op = "GetHealth" -> GetHealthResult(r)
      [] op = "CreateArticle" -> CreateArticleResult(r)
      [] op = "GetArticle" -> GetArticleResult(r)
      [] op = "SearchArticles" -> SearchArticlesResult(r)
      [] op = "SearchArticlesPaginated" -> SearchArticlesPaginatedResult(r)
      [] op = "CreatePodcast" -> CreatePodcastResult(r)
      [] op = "GetPodcast" -> GetPodcastResult(r)
      [] op = "SearchPodcasts" -> SearchPodcastsResult(r)
      [] op = "SearchPodcastsPaginated" -> SearchPodcastsPaginatedResult(r)
      [] op = "CreateArticle_errOnly" -> CreateArticle_errOnlyResult(r)
      [] op = "CreatePodcast_errOnly" -> CreatePodcast_errOnlyResult(r)

\* What the server may answer to each operation.
Bodies200(op) ==
    {T_notjson, T_null, T_emptyobj, T_array} \cup
    CASE op = "GetHealth" -> {T_health, T_health_badtime}
      [] op \in {"CreateArticle", "GetArticle", "CreateArticle_errOnly"} ->
            {T_article, T_article_null, T_article_badid}
      [] op \in {"CreatePodcast", "GetPodcast", "CreatePodcast_errOnly"} ->
            {T_podcast, T_podcast_null, T_podcast_badid}
      [] op = "SearchArticles" -> {T_articles_empty, T_articles_null, T_articles_page}
      [] op = "SearchPodcasts" -> {T_podcasts_empty, T_podcasts_null, T_podcasts_page}
      [] op = "SearchArticlesPaginated" ->
            {T_articles_empty, T_articles_page, T_articles_short}
      [] op = "SearchPodcastsPaginated" ->
            {T_podcasts_empty, T_podcasts_page, T_podcasts_short}

Outcomes(op) ==
    {DoFailure}
    \cup {Response(StatusOK, b, FALSE) : b \in Bodies200(op)}
    \cup {Response(201, T_emptyobj, FALSE), Response(204, T_empty, FALSE),
          Response(404, T_error, FALSE), Response(500, T_notjson, FALSE),
          Response(StatusOK, T_empty, TRUE), Response(500, T_empty, TRUE)}

(***************************************************************************)
(* State                                                                   *)
(***************************************************************************)

VARIABLES
    client,   \* the constructed *Client: [url, apiKey], or Nil before New succeeds
    lastNew,  \* the last call of New: its arguments and what it returned, or Nil
    pc,       \* per caller: "idle", "wait" (blocked in client.Do), "recv", "done",
              \* "noreturn"
    call,     \* per caller: the operation in progress and its arguments, or Nil
    req,      \* per caller: the request handed to the transport for this call, or Nil
    nreq,     \* per caller: how many requests this call has handed to the transport
    resp,     \* per caller: what came of sending the request, or Nil
    open,     \* per caller: a response body was obtained and is not closed yet
    result    \* per caller: the (value, error) pair the operation returned, or Nil

vars == <<client, lastNew, pc, call, req, nreq, resp, open, result>>

Init ==
    /\ client = Nil
    /\ lastNew = Nil
    /\ pc = [t \in Callers |-> "idle"]
    /\ call = [t \in Callers |-> Nil]
    /\ req = [t \in Callers |-> Nil]
    /\ nreq = [t \in Callers |-> 0]
    /\ resp = [t \in Callers |-> Nil]
    /\ open = [t \in Callers |-> FALSE]
    /\ result = [t \in Callers |-> Nil]

(***************************************************************************)
(* Construction                                                            *)
(***************************************************************************)

\* New without its check of apiKey.
New_KeyUnchecked(url, apiKey) ==
    /\ client = Nil
    /\ \A t \in Callers : pc[t] = "idle"
    /\ IF url = ""
       THEN /\ client' = Nil
            /\ lastNew' = [url |-> url, apiKey |-> apiKey, client |-> Nil,
                           err |-> Err("InvalidConfiguration", "url is empty")]
       ELSE /\ client' = [url |-> url, apiKey |-> apiKey]
            /\ lastNew' = [url |-> url, apiKey |-> apiKey,
                           client |-> [url |-> url, apiKey |-> apiKey], err |-> Nil]
    /\ UNCHANGED <<pc, call, req, nreq, resp, open, result>>

New(url, apiKey) ==
    /\ client = Nil
    /\ \A t \in Callers : pc[t] = "idle"
    /\ IF url = ""
       THEN /\ client' = Nil
            /\ lastNew' = [url |-> url, apiKey |-> apiKey, client |-> Nil,
                           err |-> Err("InvalidConfiguration", "url is empty")]
       ELSE IF apiKey = ""
       THEN /\ client' = Nil
            /\ lastNew' = [url |-> url, apiKey |-> apiKey, client |-> Nil,
                           err |-> Err("InvalidConfiguration", "apiKey is empty")]
       ELSE /\ client' = [url |-> url, apiKey |-> apiKey]
            /\ lastNew' = [url |-> url, apiKey |-> apiKey,
                           client |-> [url |-> url, apiKey |-> apiKey], err |-> Nil]
    /\ UNCHANGED <<pc, call, req, nreq, resp, open, result>>

(***************************************************************************)
(* A call: the operation runs up to client.Do, the transport answers, the  *)
(* operation runs to its return, the caller takes the result.              *)
(***************************************************************************)

\* A call that sends nothing when another caller has the same request in flight,
\* and shares that caller's exchange instead.
Invoke_Deduplicated(t, c, s) ==
    /\ pc[t] = "idle"
    /\ call' = [call EXCEPT ![t] = c]
    /\ IF s.err # Nil
       THEN /\ pc' = [pc EXCEPT ![t] = "recv"]
            /\ resp' = [resp EXCEPT ![t] = Unsent(s.err)]
            /\ UNCHANGED <<req, nreq>>
       ELSE /\ pc' = [pc EXCEPT ![t] = "wait"]
            /\ req' = [req EXCEPT ![t] = s.req]
            /\ nreq' = [nreq EXCEPT ![t] =
                           IF \E u \in DOMAIN pc : u # t /\ pc[u] = "wait" /\ req[u] = s.req
                           THEN @ ELSE @ + 1]
            /\ UNCHANGED resp
    /\ UNCHANGED <<client, lastNew, open, result>>

\* Caller t starts call c; s is what getSend or postSend made of it.  When no
\* request could be built the operation goes on to its return without the transport.
\* The operations are methods of the client New returned: none runs before it.
Invoke(t, c, s) ==
    /\ pc[t] = "idle"
    /\ call' = [call EXCEPT ![t] = c]
    /\ IF s.err # Nil
       THEN /\ pc' = [pc EXCEPT ![t] = "recv"]
            /\ resp' = [resp EXCEPT ![t] = Unsent(s.err)]
            /\ UNCHANGED <<req, nreq>>
       ELSE /\ pc' = [pc EXCEPT ![t] = "wait"]
            /\ req' = [req EXCEPT ![t] = s.req]
            /\ nreq' = [nreq EXCEPT ![t] = @ + 1]
            /\ UNCHANGED resp
    /\ UNCHANGED <<client, lastNew, open, result>>

GetHealth(t) ==
    /\ client # Nil
    /\ Invoke(t, [op |-> "GetHealth"], getSend(client, healthEndpoint))

CreateArticle(t, request) ==
    /\ client # Nil
    /\ Invoke(t, [op |-> "CreateArticle", request |-> request],
              postSend(client, createArticleEndpoint, request))

GetArticle(t, id) ==
    /\ client # Nil
    /\ Invoke(t, [op |-> "GetArticle", id |-> id], getSend(client, getArticleEndpoint(id)))

SearchArticles(t, tag) ==
    /\ client # Nil
    /\ Invoke(t, [op |-> "SearchArticles", tag |-> tag],
              getSend(client, searchArticlesEndpoint(tag)))

SearchArticlesPaginated(t, tag, page, limit) ==
    /\ client # Nil
    /\ Invoke(t, [op |-> "SearchArticlesPaginated", tag |-> tag, page |-> page, limit |-> limit],
              getSend(client, withPaging(searchArticlesPaginatedEndpoint(tag), page, limit)))

CreatePodcast(t, request) ==
    /\ client # Nil
    /\ Invoke(t, [op |-> "CreatePodcast", request |-> request],
              postSend(client, createPodcastEndpoint, request))

GetPodcast(t, id) ==
    /\ client # Nil
    /\ Invoke(t, [op |-> "GetPodcast", id |-> id], getSend(client, getPodcastEndpoint(id)))

SearchPodcasts(t, tag) ==
    /\ client # Nil
    /\ Invoke(t, [op |-> "SearchPodcasts", tag |-> tag],
              getSend(client, searchPodcastsEndpoint(tag)))

SearchPodcastsPaginated(t, tag, page, limit) ==
    /\ client # Nil
    /\ Invoke(t, [op |-> "SearchPodcastsPaginated", tag |-> tag, page |-> page, limit |-> limit],
              getSend(client, withPaging(searchPodcastsPaginatedEndpoint(tag), page, limit)))

CreateArticle_errOnly(t, request) ==
    /\ client # Nil
    /\ Invoke(t, [op |-> "CreateArticle_errOnly", request |-> request],
              postSend(client, createArticleEndpoint, request))

CreatePodcast_errOnly(t, request) ==
    /\ client # Nil
    /\ Invoke(t, [op |-> "CreatePodcast_errOnly", request |-> request],
              postSend(client, createPodcastEndpoint, request))

\* client.Do returns: the transport failed, or a response arrived whose body is
\* now open.
Do(t) ==
    /\ pc[t] = "wait"
    /\ \E out \in Outcomes(call[t].op) :
          /\ resp' = [resp EXCEPT ![t] = out]
          /\ open' = [open EXCEPT ![t] = (out.kind = "response")]
    /\ pc' = [pc EXCEPT ![t] = "recv"]
    /\ UNCHANGED <<client, lastNew, call, req, nreq, result>>

\* Where caller t's call gets to when get or post has returned: "done", the
\* operation has returned to its caller, or "noreturn", the operation is on a path
\* that has no return statement and the caller gets nothing back.
AfterReturn(t) ==
    IF call[t].op = "CreatePodcast_errOnly" /\ postReceive(resp[t]).err = Nil
    THEN "noreturn" ELSE "done"

\* A call that sends its request once more when client.Do failed.
Return_RetryOnFailure(t) ==
    /\ pc[t] = "recv"
    /\ IF resp[t].kind = "error"
       THEN /\ pc' = [pc EXCEPT ![t] = "wait"]
            /\ nreq' = [nreq EXCEPT ![t] = @ + 1]
            /\ resp' = [resp EXCEPT ![t] = Nil]
            /\ UNCHANGED <<result, open>>
       ELSE /\ result' = [result EXCEPT ![t] =
                             OpResult(call[t].op,
                                      IF call[t].op \in PostOps THEN postReceive(resp[t])
                                      ELSE getReceive(resp[t]))]
            /\ open' = [open EXCEPT ![t] = FALSE]
            /\ pc' = [pc EXCEPT ![t] = AfterReturn(t)]
            /\ UNCHANGED <<nreq, resp>>
    /\ UNCHANGED <<client, lastNew, call, req>>

\* get and post closing the body on the success path only, not in a defer.
Return_CloseOnSuccessOnly(t) ==
    /\ pc[t] = "recv"
    /\ result' = [result EXCEPT ![t] =
                     OpResult(call[t].op,
                              IF call[t].op \in PostOps THEN postReceive(resp[t])
                              ELSE getReceive(resp[t]))]
    /\ open' = [open EXCEPT ![t] =
                   @ /\ (resp[t].readErr \/ resp[t].status # StatusOK)]
    /\ pc' = [pc EXCEPT ![t] = AfterReturn(t)]
    /\ UNCHANGED <<client, lastNew, call, req, nreq, resp>>

\* The rest of get or post (the deferred res.Body.Close() included) and of the
\* operation that called it.
Return(t) ==
    /\ pc[t] = "recv"
    /\ result' = [result EXCEPT ![t] =
                     OpResult(call[t].op,
                              IF call[t].op \in PostOps THEN postReceive(resp[t])
                              ELSE getReceive(resp[t]))]
    /\ open' = [open EXCEPT ![t] = FALSE]
    /\ pc' = [pc EXCEPT ![t] = AfterReturn(t)]
    /\ UNCHANGED <<client, lastNew, call, req, nreq, resp>>

\* The caller has taken the result and is free to call again.
Finish(t) ==
    /\ pc[t] = "done"
    /\ pc' = [pc EXCEPT ![t] = "idle"]
    /\ call' = [call EXCEPT ![t] = Nil]
    /\ req' = [req EXCEPT ![t] = Nil]
    /\ nreq' = [nreq EXCEPT ![t] = 0]
    /\ resp' = [resp EXCEPT ![t] = Nil]
    /\ result' = [result EXCEPT ![t] = Nil]
    /\ UNCHANGED <<client, lastNew, open>>

Next ==
    \/ \E url \in URLs, apiKey \in APIKeys : New(url, apiKey)
    \/ \E t \in Callers : GetHealth(t)
    \/ \E t \in Callers, request \in Requests : CreateArticle(t, request)
    \/ \E t \in Callers, id \in IDs : GetArticle(t, id)
    \/ \E t \in Callers, tag \in Tags : SearchArticles(t, tag)
    \/ \E t \in Callers, tag \in Tags, p \in Pagings :
          SearchArticlesPaginated(t, tag, p[1], p[2])
    \/ \E t \in Callers, request \in Requests : CreatePodcast(t, request)
    \/ \E t \in Callers, id \in IDs : GetPodcast(t, id)
    \/ \E t \in Callers, tag \in Tags : SearchPodcasts(t, tag)
    \/ \E t \in Callers, tag \in Tags, p \in Pagings :
          SearchPodcastsPaginated(t, tag, p[1], p[2])
    \/ \E t \in Callers, request \in Requests : CreateArticle_errOnly(t, request)
    \/ \E t \in Callers, request \in Requests : CreatePodcast_errOnly(t, request)
    \/ \E t \in Callers : Do(t)
    \/ \E t \in Callers : Return(t)
    \/ \E t \in Callers : Finish(t)

Spec == Init /\ [][Next]_vars

(***************************************************************************)
(* Concurrent callers of one client.  The Client is shared by reference and *)
(* its methods write no field of it; get and post work on locals, so a     *)
(* call's steps up to client.Do are one step here.  The callers create the *)
(* same article or read the same one, so that equal requests are in flight *)
(* together.                                                               *)
(***************************************************************************)

NumConcurrent == 2
ConcCallers == 1 .. NumConcurrent
ConcRequests == {r \in Requests : r.Title = "T"}
ConcIDs == {"1"}

InitConc ==
    /\ client = Nil
    /\ lastNew = Nil
    /\ pc = [t \in ConcCallers |-> "idle"]
    /\ call = [t \in ConcCallers |-> Nil]
    /\ req = [t \in ConcCallers |-> Nil]
    /\ nreq = [t \in ConcCallers |-> 0]
    /\ resp = [t \in ConcCallers |-> Nil]
    /\ open = [t \in ConcCallers |-> FALSE]
    /\ result = [t \in ConcCallers |-> Nil]

NextConc ==
    \/ \E url \in URLs, apiKey \in APIKeys : New(url, apiKey)
    \/ \E t \in ConcCallers, request \in ConcRequests : CreateArticle(t, request)
    \/ \E t \in ConcCallers, id \in ConcIDs : GetArticle(t, id)
    \/ \E t \in ConcCallers : Do(t)
    \/ \E t \in ConcCallers : Return(t)
    \/ \E t \in ConcCallers : Finish(t)

SpecConc == InitConc /\ [][NextConc]_vars

(***************************************************************************)
(* Properties                                                              *)
(***************************************************************************)

\* Caller t's call has returned.
Returned(t) == pc[t] = "done"

\* Caller t's call has returned and the transport had delivered a response, status
\* and body text, to it.
Answered(t) == Returned(t) /\ resp[t].kind = "response" /\ ~resp[t].readErr

\* C1: whenever an operation was answered with a status other than 200, whatever
\* the body, it returns no value and an UnexpectedStatus error that carries that
\* status code and that body text.
C1_NonOKStatusFails ==
    \A t \in Callers :
        (Answered(t) /\ resp[t].status # 200) =>
            /\ result[t].val \in {Nil, NoValue}
            /\ result[t].err # Nil
            /\ result[t].err.kind = "UnexpectedStatus"
            /\ result[t].err.code = resp[t].status
            /\ result[t].err.body = resp[t].body
            /\ result[t].err.msg = "unexpected status code: " \o ToString(resp[t].status)
                                    \o ", body: " \o resp[t].body

\* A GET answered 201 with a JSON body has failed with UnexpectedStatus.
C1_Witness ==
    \E t \in Callers :
        /\ Answered(t) /\ call[t].op \in GetOps
        /\ resp[t].status = 201 /\ ParseJSON(resp[t].body) # JInvalid
        /\ result[t].err # Nil /\ result[t].err.kind = "UnexpectedStatus"

\* C2: New returns a client exactly when url and apiKey are both non-empty, an
\* InvalidConfiguration error and no client otherwise, and a call of New hands no
\* request to the transport.
C2_NewValidates ==
    /\ [](lastNew # Nil =>
            /\ (lastNew.client # Nil) <=> (lastNew.url # "" /\ lastNew.apiKey # "")
            /\ (lastNew.client # Nil) =>
                  /\ lastNew.err = Nil
                  /\ lastNew.client = [url |-> lastNew.url, apiKey |-> lastNew.apiKey]
            /\ (lastNew.client = Nil) =>
                  /\ lastNew.err # Nil
                  /\ lastNew.err.kind = "InvalidConfiguration"
                  /\ client = Nil)
    /\ [][lastNew' # lastNew => (req' = req /\ nreq' = nreq)]_vars

\* New was called with a URL and an empty key, and failed.
C2_Witness ==
    /\ lastNew # Nil
    /\ lastNew.url # "" /\ lastNew.apiKey = ""
    /\ lastNew.client = Nil /\ client = Nil

\* C3: every request handed to the transport carries Authorization: Bearer <the
\* key New was given> and Content-Type: application/json.
C3_HeadersOnEveryRequest ==
    \A t \in Callers :
        req[t] # Nil =>
            /\ {"Authorization", "Content-Type"} \subseteq DOMAIN req[t].header
            /\ req[t].header["Authorization"] = "Bearer " \o lastNew.apiKey
            /\ req[t].header["Content-Type"] = "application/json"

\* A POST is in flight on a client built with the key k2.
C3_Witness ==
    \E t \in Callers :
        /\ pc[t] = "wait" /\ req[t] # Nil /\ req[t].method = "POST"
        /\ lastNew.apiKey = "k2"

\* Caller t's call was answered 200 with body text b.
AnsweredOK(t, b) == Answered(t) /\ resp[t].status = 200 /\ resp[t].body = b

ArticleOps == {"CreateArticle", "GetArticle", "SearchArticles", "SearchArticlesPaginated",
               "CreateArticle_errOnly"}

\* The entity of the single-item envelopes T_article and T_podcast.
Item1 ==
    [ID |-> "1", Title |-> "T", Description |-> "", URL |-> "https://x",
     Tags |-> [elems |-> <<"a", "b">>], CreatedAt |-> ZeroTime, UpdatedAt |-> ZeroTime]

\* C4: an operation answered 200 with a body that is not JSON fails with a
\* DeserializationError (so it returns no nil result with a nil error).
C4_MalformedBodyFails ==
    \A t \in Callers :
        (Answered(t) /\ resp[t].status = 200 /\ ParseJSON(resp[t].body) = JInvalid) =>
            /\ result[t].err # Nil
            /\ result[t].err.kind = "DeserializationError"

\* C5: GetArticle and GetPodcast return an entity and no error, or an error and no
\* entity.
C5_EntityOrError ==
    \A t \in Callers :
        (Returned(t) /\ call[t].op \in {"GetArticle", "GetPodcast"}) =>
            \/ result[t].val # Nil /\ result[t].err = Nil
            \/ result[t].val = Nil /\ result[t].err # Nil

\* C6: a create operation answered 200 with the single-item envelope of its
\* resource returns the entity of that envelope and no error.
C6_CreateReturnsEntity ==
    \A t \in Callers :
        (/\ Returned(t)
         /\ call[t].op \in PostOps
         /\ AnsweredOK(t, IF call[t].op \in ArticleOps THEN T_article ELSE T_podcast)) =>
            /\ result[t].err = Nil
            /\ result[t].val = Item1

\* The JSON value under key k of the body caller t was answered with.
Payload(t, k) == ParseJSON(resp[t].body).o[k]

\* C7: a search by tag answered 200 with an envelope whose list is empty returns an
\* empty slice that is not nil, and no error.
C7_EmptySearchIsEmptySlice ==
    \A t \in Callers :
        (/\ Returned(t)
         /\ \/ call[t].op = "SearchArticles" /\ AnsweredOK(t, T_articles_empty)
            \/ call[t].op = "SearchPodcasts" /\ AnsweredOK(t, T_podcasts_empty)) =>
            /\ Payload(t, IF call[t].op \in ArticleOps THEN "articles" ELSE "podcasts")
                  = JArr(<< >>)
            /\ result[t].err = Nil
            /\ result[t].val # Nil
            /\ result[t].val.elems = << >>

\* SearchArticles has returned for the body {"articles":[]}.
C7_Witness ==
    \E t \in Callers :
        /\ Returned(t) /\ call[t].op = "SearchArticles" /\ AnsweredOK(t, T_articles_empty)
        /\ result[t].val = [elems |-> << >>]

\* The texts of a JSON array of strings, in order.
Texts(j) == [i \in 1 .. Len(j.a) |-> j.a[i].s]

\* Entity e has the id, title, url and tags of the JSON object j.
SameFields(e, j) ==
    /\ e.ID = j.o.id.s
    /\ e.Title = j.o.title.s
    /\ e.URL = j.o.url.s
    /\ IF "tags" \in DOMAIN j.o THEN e.Tags # Nil /\ e.Tags.elems = Texts(j.o.tags)
       ELSE e.Tags = Nil

\* The slice items holds the entities of the JSON array j, one for one, in order.
SameItems(items, j) ==
    /\ items # Nil
    /\ Len(items.elems) = Len(j.a)
    /\ \A i \in 1 .. Len(j.a) : SameFields(items.elems[i], j.a[i])

\* C8: a read answered 200 with a well-formed envelope returns the envelope's
\* payload: the entity's id, title, url and tags (same elements, same order), the
\* list's items one for one, and the page's total, page and limit.
C8_ReadRoundTrip ==
    \A t \in Callers :
        Returned(t) =>
            /\ (call[t].op = "GetArticle" /\ AnsweredOK(t, T_article)) =>
                  /\ result[t].err = Nil /\ result[t].val # Nil
                  /\ SameFields(result[t].val, Payload(t, "article"))
                  /\ result[t].val.Tags.elems = <<"a", "b">>
            /\ (call[t].op = "GetPodcast" /\ AnsweredOK(t, T_podcast)) =>
                  /\ result[t].err = Nil /\ result[t].val # Nil
                  /\ SameFields(result[t].val, Payload(t, "podcast"))
            /\ (call[t].op = "SearchArticles" /\ AnsweredOK(t, T_articles_page)) =>
                  /\ result[t].err = Nil
                  /\ SameItems(result[t].val, Payload(t, "articles"))
            /\ (call[t].op = "SearchPodcasts" /\ AnsweredOK(t, T_podcasts_page)) =>
                  /\ result[t].err = Nil
                  /\ SameItems(result[t].val, Payload(t, "podcasts"))
            /\ (/\ call[t].op = "SearchArticlesPaginated"
                /\ \E b \in {T_articles_page, T_articles_short} : AnsweredOK(t, b)) =>
                  /\ result[t].err = Nil /\ result[t].val # Nil
                  /\ SameItems(result[t].val.Articles, Payload(t, "articles"))
                  /\ result[t].val.Total = Payload(t, "total").n
                  /\ result[t].val.Page = Payload(t, "page").n
                  /\ result[t].val.Limit = Payload(t, "limit").n
            /\ (/\ call[t].op = "SearchPodcastsPaginated"
                /\ \E b \in {T_podcasts_page, T_podcasts_short} : AnsweredOK(t, b)) =>
                  /\ result[t].err = Nil /\ result[t].val # Nil
                  /\ SameItems(result[t].val.Podcasts, Payload(t, "podcasts"))
                  /\ result[t].val.Total = Payload(t, "total").n
                  /\ result[t].val.Page = Payload(t, "page").n
                  /\ result[t].val.Limit = Payload(t, "limit").n
            /\ (call[t].op = "GetHealth" /\ AnsweredOK(t, T_health)) =>
                  /\ result[t].err = Nil /\ result[t].val # Nil
                  /\ result[t].val.Status = Payload(t, "status").s
                  /\ result[t].val.Database = Payload(t, "database").s
                  /\ result[t].val.Timestamp = Payload(t, "timestamp").s

\* SearchPodcastsPaginated has returned two podcasts of 37, page 1, limit 20.
C8_Witness ==
    \E t \in Callers :
        /\ Returned(t) /\ call[t].op = "SearchPodcastsPaginated"
        /\ AnsweredOK(t, T_podcasts_page)
        /\ result[t].err = Nil
        /\ Len(result[t].val.Podcasts.elems) = 2
        /\ result[t].val.Total = 37 /\ result[t].val.Page = 1 /\ result[t].val.Limit = 20

\* C9: the body of every POST handed to the transport is the JSON encoding of the
\* payload the create operation was called with.
C9_PostBodyIsPayload ==
    \A t \in Callers :
        (req[t] # Nil /\ req[t].method = "POST") =>
            /\ call[t].op \in PostOps
            /\ req[t].body # Nil
            /\ req[t].body.text = Marshal(call[t].request).data
            /\ call[t].request.Title = "T" =>
                  req[t].body.text = "{\"title\":\"T\",\"url\":\"https://x\",\"tags\":[\"a\",\"b\"]}"
            /\ call[t].request.Title = "Q&A" =>
                  req[t].body.text =
                     "{\"title\":\"Q\\u0026A\",\"description\":\"D\",\"url\":\"https://y\"}"

\* CreateArticle has handed its POST to the transport.
C9_Witness ==
    \E t \in Callers :
        /\ pc[t] = "wait" /\ call[t].op = "CreateArticle"
        /\ req[t].method = "POST" /\ req[t].body # Nil
        /\ call[t].request.Title = "Q&A"

\* The transport failed, the body could not be read, or the status is not 200.
FailedExchange(out) ==
    \/ out.kind = "error"
    \/ out.kind = "response" /\ (out.readErr \/ out.status # 200)

\* C10: a call hands at most one request to the transport, and a call whose
\* exchange failed returns that failure, having sent that one request only.
C10_OneRequestPerCall ==
    \A t \in Callers :
        /\ nreq[t] <= 1
        /\ (Returned(t) /\ FailedExchange(resp[t])) =>
              /\ nreq[t] = 1
              /\ result[t].val \in {Nil, NoValue}
              /\ result[t].err # Nil
              /\ result[t].err.kind =
                    IF resp[t].kind = "error" \/ resp[t].readErr THEN "TransportError"
                    ELSE "UnexpectedStatus"

\* A call whose client.Do failed has returned a TransportError after one request.
C10_Witness ==
    \E t \in Callers :
        /\ Returned(t) /\ resp[t].kind = "error" /\ nreq[t] = 1
        /\ result[t].err # Nil /\ result[t].err.kind = "TransportError"

\* The context each operation puts in front of an error of get or post.
OpContext(op) ==
    CASE op = "GetHealth" -> "error retrieving health status"
      [] op \in {"CreateArticle", "CreateArticle_errOnly"} -> "error creating article"
      [] op = "GetArticle" -> "error retrieving article"
      [] op = "SearchArticles" -> "error searching articles"
      [] op = "SearchArticlesPaginated" -> "error searching articles with pagination"
      [] op \in {"CreatePodcast", "CreatePodcast_errOnly"} -> "error creating podcast"
      [] op = "GetPodcast" -> "error retrieving podcast"
      [] op = "SearchPodcasts" -> "error searching podcasts"
      [] op = "SearchPodcastsPaginated" -> "error searching podcasts with pagination"

\* The error get or post returned to the operation of caller t, or Nil.
LowerFailure(t) ==
    IF call[t].op \in PostOps THEN postReceive(resp[t]).err ELSE getReceive(resp[t]).err

\* C11: when get or post failed inside an operation, the operation returns no
\* value and an error of the same kind and message as that failure, whose
\* context is the failure's context with one layer, the operation's, in front.
C11_FailureKeepsKind ==
    \A t \in Callers :
        (Returned(t) /\ LowerFailure(t) # Nil) =>
            /\ result[t].val \in {Nil, NoValue}
            /\ result[t].err # Nil
            /\ result[t].err.kind = LowerFailure(t).kind
            /\ result[t].err.msg = LowerFailure(t).msg
            /\ result[t].err.ctx = <<OpContext(call[t].op)>> \o LowerFailure(t).ctx
            /\ resp[t].kind = "error" => result[t].err.kind = "TransportError"
            /\ (resp[t].kind = "response" /\ resp[t].readErr) =>
                  result[t].err.kind = "TransportError"
            /\ (resp[t].kind = "response" /\ ~resp[t].readErr) =>
                  /\ result[t].err.kind = "UnexpectedStatus"
                  /\ result[t].err.code = resp[t].status
                  /\ result[t].err.body = resp[t].body

\* A create whose client.Do failed has returned a TransportError whose context
\* is the operation's layer in front of post's own.
C11_Witness ==
    \E t \in Callers :
        /\ Returned(t) /\ call[t].op = "CreateArticle" /\ resp[t].kind = "error"
        /\ result[t].val = Nil
        /\ result[t].err.kind = "TransportError"
        /\ result[t].err.ctx = <<"error creating article", "error sending request">>

\* The request caller t's call has to send, written out from its arguments and
\* the values the client was constructed with.
OwnRequest(t) ==
    IF call[t].op = "CreateArticle"
    THEN [method |-> "POST", url |-> lastNew.url \o "/api/v1/articles",
          header |-> ("Content-Type" :> "application/json"
                      @@ "Authorization" :> ("Bearer " \o lastNew.apiKey)),
          body |-> [text |-> "{\"title\":\"T\",\"url\":\"https://x\",\"tags\":[\"a\",\"b\"]}"]]
    ELSE [method |-> "GET", url |-> lastNew.url \o "/api/v1/articles/" \o call[t].id,
          header |-> ("Content-Type" :> "application/json"
                      @@ "Authorization" :> ("Bearer " \o lastNew.apiKey)),
          body |-> Nil]

\* Every caller's call in progress has sent exactly one request, its own, and a
\* returned call's result is the operation's result on its own response.
OnePerCall ==
    \A t \in ConcCallers :
        /\ pc[t] = "idle" => nreq[t] = 0
        /\ pc[t] # "idle" => (nreq[t] = 1 /\ req[t] = OwnRequest(t))
        /\ Returned(t) =>
              result[t] = OpResult(call[t].op,
                                   IF call[t].op \in PostOps THEN postReceive(resp[t])
                                   ELSE getReceive(resp[t]))

\* Callers t and u, two calls with the same arguments, have returned.
SameCallReturned(t, u) ==
    /\ t # u /\ Returned(t) /\ Returned(u) /\ call[t] = call[u]

\* C12: under every interleaving of concurrent calls on one client, each call
\* sends exactly one request, its own (two creates of the same article send two
\* requests); a call's result is determined by its own response, and no step of
\* another caller changes a caller's call, request, response or result; the
\* client's base URL and token stay those given to New.
C12_CallsAreIndependent ==
    /\ [](OnePerCall
          /\ (client # Nil => client = [url |-> lastNew.url, apiKey |-> lastNew.apiKey])
          /\ \A t, u \in ConcCallers :
                (SameCallReturned(t, u) /\ resp[t] = resp[u]) => result[t] = result[u])
    /\ [][/\ client # Nil => client' = client
          /\ \A t \in ConcCallers :
                pc'[t] = pc[t] =>
                   /\ call'[t] = call[t] /\ req'[t] = req[t] /\ nreq'[t] = nreq[t]
                   /\ resp'[t] = resp[t] /\ result'[t] = result[t]]_vars

\* Two callers created the same article at the same time: each sent its own
\* request, one was answered with the article and the other's client.Do failed,
\* and each got the result of its own exchange.
C12_Witness ==
    \E t, u \in ConcCallers :
        /\ SameCallReturned(t, u) /\ call[t].op = "CreateArticle"
        /\ nreq[t] = 1 /\ nreq[u] = 1 /\ req[t] = req[u]
        /\ resp[t] = Response(StatusOK, T_article, FALSE) /\ result[t].err = Nil
        /\ resp[u].kind = "error" /\ result[u].err # Nil

\* The path of the GET operation in progress for caller t, written out from the
\* endpoint pattern and the call's arguments.
ExpectedPath(t) ==
    CASE call[t].op = "GetHealth" -> "/health"
      [] call[t].op = "GetArticle" -> "/api/v1/articles/" \o call[t].id
      [] call[t].op = "GetPodcast" -> "/api/v1/podcasts/" \o call[t].id
      [] call[t].op = "SearchArticles" -> "/api/v1/articles/search/" \o call[t].tag
      [] call[t].op = "SearchPodcasts" -> "/api/v1/podcasts/search/" \o call[t].tag
      [] call[t].op = "SearchArticlesPaginated" ->
            "/api/v1/articles/search/" \o call[t].tag \o "/paginated?page="
               \o ToString(call[t].page) \o "&limit=" \o ToString(call[t].limit)
      [] call[t].op = "SearchPodcastsPaginated" ->
            "/api/v1/podcasts/search/" \o call[t].tag \o "/paginated?page="
               \o ToString(call[t].page) \o "&limit=" \o ToString(call[t].limit)

\* Caller t has a GET operation in progress or returned.
InGet(t) == pc[t] # "idle" /\ call[t].op \in GetOps

\* The URL built for caller t's call does not parse: its id holds a malformed
\* percent-escape.
Unparsable(t) == call[t].op \in {"GetArticle", "GetPodcast"} /\ call[t].id \in BadEscapes

\* C13 as stated: every GET operation, whatever its inputs, issues a request
\* whose URL is the base URL followed by the endpoint pattern with the id or tag
\* and page and limit inserted as given; no input is rejected before that.
C13_EveryGetIsSent ==
    \A t \in Callers :
        InGet(t) => (nreq[t] = 1 /\ req[t].url = lastNew.url \o ExpectedPath(t))

\* C13, amended: the URL a GET operation builds is the base URL followed by the
\* endpoint pattern with the id or tag inserted verbatim and page and limit as
\* given, unvalidated; the request is issued with that URL unless the URL does
\* not parse, in which case the operation fails with the error of
\* http.NewRequest and nothing is sent.
C13_UrlVerbatim ==
    \A t \in Callers :
        InGet(t) =>
            IF Unparsable(t)
            THEN /\ nreq[t] = 0 /\ req[t] = Nil
                 /\ resp[t].kind = "unsent"
                 /\ Returned(t) =>
                       /\ result[t].val = Nil
                       /\ result[t].err = Wrap(OpContext(call[t].op), resp[t].err)
            ELSE /\ nreq[t] = 1
                 /\ req[t].method = "GET"
                 /\ req[t].url = lastNew.url \o ExpectedPath(t)

\* A paginated search for a tag holding '/', '?' and '#', with page 0 and limit
\* 101, is in flight with exactly that text in its URL.
C13_Witness ==
    \E t \in Callers :
        /\ pc[t] = "wait" /\ call[t].op = "SearchArticlesPaginated"
        /\ call[t].tag = "a/b?c#d" /\ call[t].page = 0 /\ call[t].limit = 101
        /\ req[t].url = "http://dw/api/v1/articles/search/a/b?c#d/paginated?page=0&limit=101"

\* Caller t's paginated search has returned a page and no error.
PageReturned(t) ==
    /\ Returned(t) /\ call[t].op \in {"SearchArticlesPaginated", "SearchPodcastsPaginated"}
    /\ result[t].err = Nil

\* The number of items in the page caller t got: len of the Articles or Podcasts
\* slice, 0 for a nil slice.
PageLen(t) ==
    IF call[t].op = "SearchArticlesPaginated"
    THEN (IF result[t].val.Articles = Nil THEN 0 ELSE Len(result[t].val.Articles.elems))
    ELSE (IF result[t].val.Podcasts = Nil THEN 0 ELSE Len(result[t].val.Podcasts.elems))

\* What the response body of caller t's call says: the number under key k and the
\* length of the array under key k, 0 when the body has no such member.
BodyNumber(t, k) ==
    IF ParseJSON(resp[t].body).t = "object" /\ k \in DOMAIN ParseJSON(resp[t].body).o
    THEN ParseJSON(resp[t].body).o[k].n ELSE 0
BodyLen(t, k) ==
    IF ParseJSON(resp[t].body).t = "object" /\ k \in DOMAIN ParseJSON(resp[t].body).o
    THEN Len(ParseJSON(resp[t].body).o[k].a) ELSE 0
ItemsKey(t) == IF call[t].op = "SearchArticlesPaginated" THEN "articles" ELSE "podcasts"

\* C14 as stated: every page a paginated search returns without error has a total
\* that is at least the number of its items.
C14_TotalCoversPage ==
    \A t \in Callers : PageReturned(t) => result[t].val.Total >= PageLen(t)

\* C14, amended: a page returned without error has the total and the items of
\* the response body, unchecked, so its total is at least the number of its
\* items exactly when that is so of the body the server sent.
C14_TotalAsSent ==
    \A t \in Callers :
        PageReturned(t) =>
            /\ result[t].val.Total = BodyNumber(t, "total")
            /\ PageLen(t) = BodyLen(t, ItemsKey(t))
            /\ (result[t].val.Total >= PageLen(t))
                  <=> (BodyNumber(t, "total") >= BodyLen(t, ItemsKey(t)))

\* SearchArticlesPaginated, answered with two articles and a total of 1, has
\* returned the two articles and the total 1 without error.
C14_Witness ==
    \E t \in Callers :
        /\ PageReturned(t) /\ call[t].op = "SearchArticlesPaginated"
        /\ resp[t].body = T_articles_short
        /\ PageLen(t) = 2 /\ result[t].val.Total = 1

\* C15: a response body is open only between the return of client.Do and the
\* return of get or post: once a call has returned, on whichever path (success,
\* body-read failure, status other than 200), its body is closed, and no body
\* stays open after the caller has moved on.
C15_BodyClosedOnReturn ==
    \A t \in Callers :
        /\ open[t] => (pc[t] = "recv" /\ resp[t].kind = "response")
        /\ (pc[t] = "recv" /\ resp[t].kind = "response") => open[t]
        /\ pc[t] \in {"idle", "wait", "done", "noreturn"} => ~open[t]

\* A call whose response body could not be read has returned its error, and the
\* body it had obtained is closed.
C15_Witness ==
    \E t \in Callers :
        /\ Returned(t) /\ resp[t].kind = "response" /\ resp[t].readErr
        /\ result[t].err # Nil /\ ~open[t]

====
